---- MODULE Spec2Model ----
(***************************************************************************)
(* A model of the Akismet client of src/src/index.ts: the constructor, the *)
(* five public operations, the shared request executor _postRequest and    *)
(* the three kinds of transport event its callbacks can see (a response,   *)
(* an error reported by the POST, an error caught by the request's         *)
(* domain).                                                                *)
(***************************************************************************)
EXTENDS Integers, Sequences, FiniteSets, TLC

VARIABLES client, heap, calls, cb, raised, uncaught

vars == <<client, heap, calls, cb, raised, uncaught>>

(***************************************************************************)
(* Bounds of the model.                                                    *)
(***************************************************************************)
\* Calls of public operations made on the client in one run.
MaxCalls == 2
\* Errors raised asynchronously inside the requests' domains in one run.
MaxDomainErrors == 1

(***************************************************************************)
(* Values.                                                                 *)
(***************************************************************************)
\* JavaScript's null in the err position of a callback; no error value equals it.
Null == "null"

\* HTTP status codes a response can carry: both edges of [200,300) and beyond.
Statuses == {199, 200, 299, 300}

\* Responses the transport can hand over: every status with each of the two
\* literals the operations test for, and the negative answers of the service.
Responses ==
  {[status |-> s, body |-> b] : s \in Statuses, b \in {"valid", "true"}}
    \cup {[status |-> 200, body |-> "invalid"], [status |-> 200, body |-> "false"]}

\* Errors the transport reports or the domain catches (all truthy).
Errors == {"ECONNREFUSED"}

\* Option objects handed to akismet.client(): the key with falsy values for
\* two fields that default through `||`, and every field set.
ClientOptions ==
  { ("apiKey" :> "myakismetapikey123" @@ "blog" :> "" @@ "port" :> 0),
    ("apiKey" :> "myakismetapikey123" @@ "blog" :> "http://my.blog.com"
       @@ "host" :> "akismet.test" @@ "endPoint" :> "ep.akismet.test"
       @@ "port" :> 443 @@ "userAgent" :> "MyApp/1.0" @@ "charSet" :> "latin1") }

\* Parameter objects a caller creates: one that carries a blog of its own
\* (to be overwritten) and no user_agent (to be added).
ParamInputs ==
  { [user_ip |-> "1.1.1.1", blog |-> "http://evil.example",
     comment_content |-> "spam!"] }

(***************************************************************************)
(* JavaScript helpers.                                                     *)
(***************************************************************************)
\* `options.f || dflt` for a string field: absent and '' are falsy.
OrString(options, f, dflt) ==
  IF f \in DOMAIN options /\ options[f] # "" THEN options[f] ELSE dflt

\* `options.f || dflt` for a number field: absent and 0 are falsy.
OrNumber(options, f, dflt) ==
  IF f \in DOMAIN options /\ options[f] # 0 THEN options[f] ELSE dflt

\* `obj.f = v` on an open mapping: the key is added when absent.
SetField(obj, f, v) ==
  [k \in DOMAIN obj \cup {f} |-> IF k = f THEN v ELSE obj[k]]

\* url.format({protocol, hostname, pathname, port}).
formatURL(protocol, hostname, pathname, port) ==
  protocol \o "://" \o hostname \o ":" \o ToString(port) \o pathname

(***************************************************************************)
(* The client.                                                             *)
(***************************************************************************)
\* constructor(options)
AkismetClient(options) ==
  LET apiKey == options["apiKey"]
      host   == OrString(options, "host", "rest.akismet.com")
  IN [ _blog      |-> OrString(options, "blog", ""),
       _apiKey    |-> apiKey,
       _host      |-> host,
       _endPoint  |-> OrString(options, "endPoint", apiKey \o "." \o host),
       _port      |-> OrNumber(options, "port", 80),
       _userAgent |-> OrString(options, "userAgent",
                                "Generic Node.js/1.0.0 | Akismet/3.1.7"),
       _charSet   |-> OrString(options, "charSet", "utf-8") ]

(***************************************************************************)
(* The completion closures of the public operations.  Each returns the     *)
(* arguments it hands to the caller's callback.                            *)
(***************************************************************************)
\* verifyKey's test with the upper edge of the status range let in.
verifyKeyDoneInclusive(err, status, body) ==
  <<err, status >= 200 /\ status <= 300 /\ body = "valid">>

\* verifyKey's function (err, status, body)
verifyKeyDone(err, status, body) ==
  <<err, status >= 200 /\ status < 300 /\ body = "valid">>

\* checkComment's test without the upper edge of the status range.
checkCommentDoneUnbounded(err, status, body) ==
  <<err, status >= 200 /\ body = "true">>

\* checkComment's function (err, status, body)
checkCommentDone(err, status, body) ==
  <<err, status >= 200 /\ status < 300 /\ body = "true">>

\* submitSpam's closure reporting a status outside 2xx as an error.
submitSpamDoneStatus(err, status, body) ==
  <<IF err = Null /\ ~(status >= 200 /\ status < 300) THEN "EHTTPSTATUS" ELSE err>>

\* submitSpam's function (err, status, body)
submitSpamDone(err, status, body) == <<err>>

\* submitHam's function (err, status, body)
submitHamDone(err, status, body) == <<err>>

\* Calling a PostRequestCallback: fn names the closure's code, the result is
\* what the caller's callback receives.
Invoke(fn, err, status, body) ==
  CASE fn = "verifyKey"    -> verifyKeyDone(err, status, body)
    [] fn = "checkComment" -> checkCommentDone(err, status, body)
    [] fn = "submitSpam"   -> submitSpamDone(err, status, body)
    [] fn = "submitHam"    -> submitHamDone(err, status, body)

(***************************************************************************)
(* The request executor.                                                   *)
(***************************************************************************)
\* _postRequest(hostname, path, query, callback): the request it issues (the
\* transport encodes the form when the POST is made), the error listener of
\* the domain it creates, and the closure both paths report to.
_postRequest(hostname, path, query, callback) ==
  LET requestUrl == formatURL(IF client._port = 443 THEN "https" ELSE "http",
                              hostname, path, client._port)
      options == [ url      |-> requestUrl,
                   form     |-> query,
                   headers  |-> [ contentType |-> "charset=" \o client._charSet,
                                  userAgent   |-> client._userAgent ] ]
  IN [ posts    |-> <<options>>,
       domain   |-> TRUE,
       callback |-> callback ]

\* The POST's completion handler issuing the request again on an error.
onPostCompleteRetry(req, err, response, body) ==
  [ req  |-> IF err # Null THEN [req EXCEPT !.posts = Append(@, @[1])] ELSE req,
    k    |-> req.callback.k,
    args |-> IF err # Null
               THEN Invoke(req.callback.fn, err, 0, "")
               ELSE Invoke(req.callback.fn, Null, response.statusCode, body) ]

\* The POST's completion handler reporting to a callback kept on the client,
\* which the latest call has set.
onPostCompleteLatest(req, err, response, body) ==
  [ req  |-> req,
    k    |-> Len(calls),
    args |-> IF err # Null
               THEN Invoke(req.callback.fn, err, 0, "")
               ELSE Invoke(req.callback.fn, Null, response.statusCode, body) ]

\* The function handed to postRequest, run when the POST completes: what it
\* leaves of the request and what it passes on.
onPostComplete(req, err, response, body) ==
  [ req  |-> req,
    k    |-> req.callback.k,
    args |-> IF err # Null
               THEN Invoke(req.callback.fn, err, 0, "")
               ELSE Invoke(req.callback.fn, Null, response.statusCode, body) ]

\* The domain's listener dropping the error it caught.
onDomainErrorDropped(req, err) ==
  [ req  |-> req,
    k    |-> req.callback.k,
    args |-> Invoke(req.callback.fn, Null, 0, "") ]

\* The domain's 'error' listener.
onDomainError(req, err) ==
  [ req  |-> req,
    k    |-> req.callback.k,
    args |-> Invoke(req.callback.fn, err, 0, "") ]

(***************************************************************************)
(* The public operations.  h is the heap of parameter objects, o the       *)
(* object the caller passes, k the caller's callback.  Each returns the    *)
(* heap it leaves and the request it issues.                               *)
(***************************************************************************)
\* verifyKey posting to the per-key endpoint.
verifyKeyAtEndPoint(h, k) ==
  LET options == [key |-> client._apiKey, blog |-> client._blog]
  IN [ heap |-> h,
       req  |-> _postRequest(client._endPoint, "/1.1/verify-key", options,
                             [fn |-> "verifyKey", k |-> k]) ]

verifyKey(h, k) ==
  LET options == [key |-> client._apiKey, blog |-> client._blog]
  IN [ heap |-> h,
       req  |-> _postRequest(client._host, "/1.1/verify-key", options,
                             [fn |-> "verifyKey", k |-> k]) ]

\* checkComment overwriting the two fields after the request went out.
checkCommentLate(h, o, k) ==
  LET options == SetField(SetField(h[o], "blog", client._blog),
                          "user_agent", client._userAgent)
  IN [ heap |-> [h EXCEPT ![o] = options],
       req  |-> _postRequest(client._endPoint, "/1.1/comment-check", h[o],
                             [fn |-> "checkComment", k |-> k]) ]

checkComment(h, o, k) ==
  LET options == SetField(SetField(h[o], "blog", client._blog),
                          "user_agent", client._userAgent)
  IN [ heap |-> [h EXCEPT ![o] = options],
       req  |-> _postRequest(client._endPoint, "/1.1/comment-check", options,
                             [fn |-> "checkComment", k |-> k]) ]

\* checkSpam with a body of its own that skips the user_agent overwrite.
checkSpamOwnBody(h, o, k) ==
  LET options == SetField(h[o], "blog", client._blog)
  IN [ heap |-> [h EXCEPT ![o] = options],
       req  |-> _postRequest(client._endPoint, "/1.1/comment-check", options,
                             [fn |-> "checkComment", k |-> k]) ]

checkSpam(h, o, k) == checkComment(h, o, k)

submitSpam(h, o, k) ==
  LET options == SetField(SetField(h[o], "blog", client._blog),
                          "user_agent", client._userAgent)
  IN [ heap |-> [h EXCEPT ![o] = options],
       req  |-> _postRequest(client._endPoint, "/1.1/submit-spam", options,
                             [fn |-> "submitSpam", k |-> k]) ]

submitHam(h, o, k) ==
  LET options == SetField(SetField(h[o], "blog", client._blog),
                          "user_agent", client._userAgent)
  IN [ heap |-> [h EXCEPT ![o] = options],
       req  |-> _postRequest(client._endPoint, "/1.1/submit-ham", options,
                             [fn |-> "submitHam", k |-> k]) ]

(***************************************************************************)
(* State.                                                                  *)
(*   client    the configuration the constructor left                      *)
(*   heap      the parameter objects callers created                       *)
(*   calls     one record per call made, in call order:                    *)
(*               entry     the public method called                        *)
(*               params    the heap index of its parameter object (0: none)*)
(*               input     that object as the caller passed it             *)
(*               req       the executor's state for the call               *)
(*               postDone  the POST's callback has run                     *)
(*               cbCount   times the caller's callback of this call ran    *)
(*   cb        the latest invocation of a caller's callback                *)
(*   raised    errors raised inside the requests' domains so far           *)
(*   uncaught  an error reached no listener                                *)
(***************************************************************************)
Init ==
  /\ client \in {AkismetClient(o) : o \in ClientOptions}
  /\ heap = <<>>
  /\ calls = <<>>
  /\ cb = [call |-> 0, args |-> <<>>]
  /\ raised = 0
  /\ uncaught = FALSE

\* The parameter objects a caller can pass: a new one, or one already passed.
Passable ==
  {[heap |-> Append(heap, p), o |-> Len(heap) + 1] : p \in ParamInputs}
    \cup {[heap |-> heap, o |-> o] : o \in 1..Len(heap)}

\* A call of a public method: r is what the method returned.
Called(entry, o, input, r) ==
  /\ heap' = r.heap
  /\ calls' = Append(calls, [ entry    |-> entry,
                              params   |-> o,
                              input    |-> input,
                              req      |-> r.req,
                              postDone |-> FALSE,
                              cbCount  |-> 0 ])
  /\ UNCHANGED <<client, cb, raised, uncaught>>

VerifyKey ==
  /\ Len(calls) < MaxCalls
  /\ Called("verifyKey", 0, <<>>, verifyKey(heap, Len(calls) + 1))

CheckComment ==
  /\ Len(calls) < MaxCalls
  /\ \E a \in Passable :
       Called("checkComment", a.o, a.heap[a.o],
              checkComment(a.heap, a.o, Len(calls) + 1))

CheckSpam ==
  /\ Len(calls) < MaxCalls
  /\ \E a \in Passable :
       Called("checkSpam", a.o, a.heap[a.o],
              checkSpam(a.heap, a.o, Len(calls) + 1))

SubmitSpam ==
  /\ Len(calls) < MaxCalls
  /\ \E a \in Passable :
       Called("submitSpam", a.o, a.heap[a.o],
              submitSpam(a.heap, a.o, Len(calls) + 1))

SubmitHam ==
  /\ Len(calls) < MaxCalls
  /\ \E a \in Passable :
       Called("submitHam", a.o, a.heap[a.o],
              submitHam(a.heap, a.o, Len(calls) + 1))

\* A transport event of call c ran a listener, which returned r.
Reported(c, r, done) ==
  LET after == [calls EXCEPT ![c].req = r.req, ![c].postDone = done]
  IN /\ cb' = [call |-> r.k, args |-> r.args]
     /\ calls' = [after EXCEPT ![r.k].cbCount = @ + 1]

\* The POST of call c completes with a response.
PostResponds(c, status, body) ==
  /\ ~calls[c].postDone
  /\ Reported(c, onPostComplete(calls[c].req, Null, [statusCode |-> status], body),
              TRUE)
  /\ UNCHANGED <<client, heap, raised, uncaught>>

\* The POST of call c completes with a transport error.
PostFails(c, err) ==
  /\ ~calls[c].postDone
  /\ Reported(c, onPostComplete(calls[c].req, err, Null, Null), TRUE)
  /\ UNCHANGED <<client, heap, raised, uncaught>>

\* An error is raised asynchronously inside the domain of call c, before or
\* after its POST completed.
DomainError(c, err) ==
  /\ raised < MaxDomainErrors
  /\ raised' = raised + 1
  /\ IF calls[c].req.domain
       THEN /\ Reported(c, onDomainError(calls[c].req, err), calls[c].postDone)
            /\ UNCHANGED uncaught
       ELSE /\ uncaught' = TRUE
            /\ UNCHANGED <<calls, cb>>
  /\ UNCHANGED <<client, heap>>

Next ==
  \/ VerifyKey
  \/ CheckComment
  \/ CheckSpam
  \/ SubmitSpam
  \/ SubmitHam
  \/ \E c \in 1..Len(calls), r \in Responses : PostResponds(c, r.status, r.body)
  \/ \E c \in 1..Len(calls), e \in Errors : PostFails(c, e)
  \/ \E c \in 1..Len(calls), e \in Errors : DomainError(c, e)

Spec == Init /\ [][Next]_vars

(***************************************************************************)
(* Properties.                                                             *)
(***************************************************************************)
Started == 1..Len(calls)

BooleanEntries == {"verifyKey", "checkComment", "checkSpam"}
SubmitEntries  == {"submitSpam", "submitHam"}
ParamEntries   == {"checkComment", "checkSpam", "submitSpam", "submitHam"}

\* The request of call c, as it went out.
Sent(c) == calls[c].req.posts[1]

\* The URL of a POST to host and path under the configured port.
WireURL(host, path) ==
  (IF client._port = 443 THEN "https" ELSE "http")
     \o "://" \o host \o ":" \o ToString(client._port) \o path

\* C1: the caller's completion callback of every call is invoked exactly
\* once: never twice, and once the POST has completed never zero times.
C1_CallbackExactlyOnce ==
  \A c \in Started :
    /\ calls[c].cbCount <= 1
    /\ calls[c].postDone => calls[c].cbCount = 1

\* C2: when the transport fails (the POST reports an error, or an error is
\* raised asynchronously in the request's domain), the caller's callback of
\* that call receives the non-null error, (err, false) from verifyKey,
\* checkComment and checkSpam and (err) from submitSpam and submitHam, and
\* the error reaches a listener.
C2_TransportFailureDelivered ==
  [][\A c \in Started, e \in Errors :
       (\/ calls'[c].postDone # calls[c].postDone /\ PostFails(c, e)
        \/ raised' # raised /\ DomainError(c, e)) =>
         /\ ~uncaught'
         /\ cb'.call = c
         /\ cb'.args[1] = e /\ cb'.args[1] # Null
         /\ calls[c].entry \in BooleanEntries => cb'.args = <<e, FALSE>>
         /\ calls[c].entry \in SubmitEntries => cb'.args = <<e>>]_vars

C2_Witness ==
  /\ ~uncaught
  /\ \E c \in Started :
       /\ cb = [call |-> c, args |-> <<"ECONNREFUSED", FALSE>>]
       /\ calls[c].entry = "verifyKey"
       /\ ~calls[c].postDone

\* C3: for every received response, verifyKey delivers a null error and the
\* result is true iff 200 <= status < 300 and the body is exactly 'valid'.
C3_VerifyKeyResult ==
  [][\A c \in Started :
       (calls[c].entry = "verifyKey" /\ calls'[c].postDone # calls[c].postDone) =>
         \A r \in Responses :
           PostResponds(c, r.status, r.body) =>
             cb' = [call |-> c,
                    args |-> <<Null, (200 <= r.status /\ r.status < 300
                                        /\ r.body = "valid")>>]]_vars

C3_Witness ==
  \E c \in Started :
    /\ calls[c].entry = "verifyKey"
    /\ calls[c].postDone
    /\ cb = [call |-> c, args |-> <<Null, TRUE>>]

\* C4: for every received response, checkComment delivers a null error and
\* the result is true iff 200 <= status < 300 and the body is exactly 'true'.
C4_CheckCommentResult ==
  [][\A c \in Started :
       (calls[c].entry = "checkComment" /\ calls'[c].postDone # calls[c].postDone) =>
         \A r \in Responses :
           PostResponds(c, r.status, r.body) =>
             cb' = [call |-> c,
                    args |-> <<Null, (200 <= r.status /\ r.status < 300
                                        /\ r.body = "true")>>]]_vars

C4_Witness ==
  \E c \in Started :
    /\ calls[c].entry = "checkComment"
    /\ calls[c].postDone
    /\ cb = [call |-> c, args |-> <<Null, TRUE>>]

\* C5: for submitSpam and submitHam every received response, whatever its
\* status and body, is delivered as a null error, and a non-null error is
\* delivered only by a transport failure.
C5_SubmitIgnoresResponse ==
  [][\A c \in Started :
       calls[c].entry \in SubmitEntries =>
         /\ calls'[c].postDone # calls[c].postDone =>
              \A r \in Responses :
                PostResponds(c, r.status, r.body) =>
                  cb' = [call |-> c, args |-> <<Null>>]
         /\ (calls'[c].cbCount > calls[c].cbCount /\ cb'.args[1] # Null) =>
              \E e \in Errors : PostFails(c, e) \/ DomainError(c, e)]_vars

C5_Witness ==
  \E c \in Started :
    /\ calls[c].entry \in SubmitEntries
    /\ calls[c].postDone
    /\ cb = [call |-> c, args |-> <<Null>>]

C7_SameRequest ==
  \A c \in Started, d \in Started :
    (calls[c].entry = "checkSpam" /\ calls[d].entry = "checkComment"
       /\ calls[c].input = calls[d].input) =>
      /\ calls[c].req.posts = calls[d].req.posts
      /\ calls[c].req.callback.fn = calls[d].req.callback.fn

C7_CheckSpamIsCheckComment ==
  /\ []C7_SameRequest
  /\ [][\A c \in Started, d \in Started :
          (calls[c].entry = "checkSpam" /\ calls[d].entry = "checkComment"
             /\ calls[c].input = calls[d].input) =>
            /\ \A r \in Responses :
                 PostResponds(c, r.status, r.body) =>
                   /\ cb'.call = c
                   /\ cb'.args = onPostComplete(calls[d].req, Null,
                                                [statusCode |-> r.status],
                                                r.body).args
            /\ \A e \in Errors :
                 PostFails(c, e) =>
                   /\ cb'.call = c
                   /\ cb'.args = onPostComplete(calls[d].req, e, Null, Null).args
            /\ \A e \in Errors :
                 DomainError(c, e) =>
                   /\ cb'.call = c
                   /\ cb'.args = onDomainError(calls[d].req, e).args]_vars

C7_Witness ==
  \E c \in Started, d \in Started :
    /\ calls[c].entry = "checkSpam" /\ calls[d].entry = "checkComment"
    /\ calls[c].input = calls[d].input
    /\ calls[c].postDone
    /\ cb = [call |-> c, args |-> <<Null, TRUE>>]

\* C8: every operation sends its POST to the host and path of the wire
\* table: verifyKey to the configured host, not the per-key endpoint, at
\* /1.1/verify-key with exactly the keys 'key' and 'blog'; checkComment,
\* submitSpam and submitHam to the per-key endpoint at /1.1/comment-check,
\* /1.1/submit-spam and /1.1/submit-ham with every key the caller passed.
C8_WireTable ==
  \A c \in Started :
    LET e == calls[c].entry
        r == Sent(c)
    IN /\ e = "verifyKey" =>
            /\ r.url = WireURL(client._host, "/1.1/verify-key")
            /\ r.url # WireURL(client._endPoint, "/1.1/verify-key")
            /\ DOMAIN r.form = {"key", "blog"}
            /\ r.form["key"] = client._apiKey
            /\ r.form["blog"] = client._blog
       /\ e = "checkComment" =>
            r.url = WireURL(client._endPoint, "/1.1/comment-check")
       /\ e = "submitSpam" =>
            r.url = WireURL(client._endPoint, "/1.1/submit-spam")
       /\ e = "submitHam" =>
            r.url = WireURL(client._endPoint, "/1.1/submit-ham")
       /\ e \in {"checkComment", "submitSpam", "submitHam"} =>
            /\ DOMAIN r.form = DOMAIN calls[c].input \cup {"blog", "user_agent"}
            /\ \A f \in DOMAIN calls[c].input \ {"blog", "user_agent"} :
                 r.form[f] = calls[c].input[f]

C8_Witness ==
  \E c \in Started, d \in Started :
    /\ calls[c].entry = "verifyKey"
    /\ calls[d].entry = "submitHam"
    /\ "comment_content" \in DOMAIN Sent(d).form

\* C9: each call issues exactly one POST; no outcome, a transport failure
\* and an asynchronously raised error included, makes it issue a second.
C9_SinglePost ==
  \A c \in Started : Len(calls[c].req.posts) = 1

C9_Witness ==
  \E c \in Started :
    /\ calls[c].postDone
    /\ calls[c].cbCount = 2
    /\ cb.call = c /\ cb.args[1] \in Errors

\* The arguments a callback can receive from the operation behind call c.
Outcomes(c) ==
  {Invoke(calls[c].req.callback.fn, Null, r.status, r.body) : r \in Responses}
    \cup {Invoke(calls[c].req.callback.fn, e, 0, "") : e \in Errors}

\* C10: calls in flight together are independent: whatever the order of
\* arrival, a step that changes the record of a call runs that call's own
\* callback, once, with an outcome of that call's operation, and changes no
\* other call and no parameter object; no step changes the configuration,
\* and a parameter object changes only in the call it is passed to.
C10_CallsIndependent ==
  [][/\ client' = client
     /\ \A c \in Started :
          calls'[c] # calls[c] =>
            /\ cb'.call = c
            /\ calls[c].req.callback.k = c
            /\ calls'[c].cbCount = calls[c].cbCount + 1
            /\ cb'.args \in Outcomes(c)
            /\ \A d \in Started \ {c} : calls'[d] = calls[d]
            /\ Len(calls') = Len(calls)
            /\ heap' = heap
     /\ \A o \in 1..Len(heap) :
          heap'[o] # heap[o] =>
            /\ Len(calls') = Len(calls) + 1
            /\ calls'[Len(calls')].params = o]_vars

C10_Witness ==
  /\ Len(calls) >= 2
  /\ calls[1].params # 0 /\ calls[1].params = calls[2].params
  /\ calls[2].postDone /\ ~calls[1].postDone
  /\ cb.call = 2

====
